---- MODULE Spec2Model ----
(***************************************************************************)
(* Model of bolt.go: route registration (Use / Handle), request dispatch   *)
(* (ServeHTTP) and the Context pool.  Go slices are modelled with their    *)
(* backing arrays, because Handle and Use both build slices with append.   *)
(* Context.Next / Halt / reset and router.Add / Find are called by bolt.go *)
(* but defined elsewhere in the package; they follow the design document.  *)
(***************************************************************************)
EXTENDS Integers, Sequences, FiniteSets, TLC

\* ------------------------------------------------------------------ bounds
MaxMiddleware == 3     \* total middleware handed to Use
MaxHandles    == 2     \* Handle calls in a registration run
NumWorkers    == 2     \* concurrent ServeHTTP calls
MaxRequests   == 3     \* requests served in one run
MaxContexts   == 2     \* Contexts the pool factory may build

\* --------------------------------------------------------------- constants
DefaultMaxParam == 5

Methods  == {"GET", "POST"}
Patterns == {<<"x">>, <<"users", ":id">>}

\* Requests sent to the server: a plain match, a match with a capture, an
\* unknown path, and a known path with another method.
Requests == {<<"GET", <<"x">>>>, <<"GET", <<"users", "42">>>>,
             <<"GET", <<"y">>>>, <<"POST", <<"x">>>>}

Nil == "nil"

\* Arguments of the registration calls tried: Use(h...) and Handle(.., h).
UseArgs    == {<<"mA">>, <<"mB">>, <<"mA", "mB">>}
HandleArgs == {<< >>, <<"hEnd">>, <<"hHalt">>, <<"hEnd", "hHalt">>}
RegRoutes  == {<<"GET", <<"x">>>>, <<"GET", <<"users", ":id">>>>}

\* Application handlers, identified by name.  Script gives what the body of
\* the handler does between its start (pre) and its return (post):
\* "N" = c.Next(), "H" = c.Halt(), "S" = a write to the Store.
Script(h) ==
    CASE h = "mA"         -> <<"N">>
      [] h = "mB"         -> <<"N">>
      [] h = "mTwice"     -> <<"N", "N">>
      [] h = "mSkip"      -> << >>
      [] h = "hNext"      -> <<"N">>
      [] h = "hEnd"       -> <<"S">>
      [] h = "hHalt"      -> <<"H">>
      [] h = "notFound"   -> <<"H">>
      [] h = "notAllowed" -> <<"H">>
      [] h = "customNF"   -> <<"S", "N">>
      [] OTHER            -> << >>

\* ------------------------------------------------------------- Go slices
\* A slice is a window [0, len) on a backing array of cap elements.
NilSlice == [arr |-> 0, len |-> 0, cap |-> 0]

\* Elements of slice s, read through the heap.
SliceElems(hp, s) == [k \in 1..s.len |-> hp[s.arr][k]]

\* Size classes of the allocator, in 8-byte words.
RoundUpCap(n) ==
    IF n <= 4 THEN n
    ELSE IF n <= 16 THEN n + (n % 2)
    ELSE n

\* Capacity chosen by append when it has to reallocate.
GrowCap(oldCap, newLen) ==
    RoundUpCap(IF newLen > 2 * oldCap THEN newLen ELSE 2 * oldCap)

\* append(s, xs...): writes in place when the capacity allows it, otherwise
\* copies into a new backing array.  Result: the heap and the new slice.
GoAppend(hp, s, xs) ==
    LET n == s.len + Len(xs) IN
    IF n <= s.cap
    THEN [heap  |-> IF Len(xs) = 0 THEN hp
                    ELSE [hp EXCEPT ![s.arr] =
                            [k \in 1..s.cap |->
                                IF k > s.len /\ k <= n THEN xs[k - s.len]
                                ELSE @[k]]],
          slice |-> [arr |-> s.arr, len |-> n, cap |-> s.cap]]
    ELSE LET c == GrowCap(s.cap, n) IN
         [heap  |-> Append(hp,
                      [k \in 1..c |->
                          IF k <= s.len THEN hp[s.arr][k]
                          ELSE IF k <= n THEN xs[k - s.len]
                          ELSE Nil]),
          slice |-> [arr |-> Len(hp) + 1, len |-> n, cap |-> c]]

\* --------------------------------------------------------- registration
NoEntry == [h |-> NilSlice, l |-> -1]

\* New(): the Bolt value with its default fallback handlers.
NewBolt(nf, na) ==
    [handlers                |-> NilSlice,
     maxParam                |-> DefaultMaxParam,
     notFoundHandler         |-> nf,
     methodNotAllowedHandler |-> na,
     Router                  |-> [k \in Methods \X Patterns |-> NoEntry]]

\* Registration state: the Bolt value, the heap of backing arrays, and two
\* history values (all middleware handed to Use, and for each route the
\* chain it was registered with).
NewReg(nf, na) ==
    [bolt   |-> NewBolt(nf, na),
     heap   |-> << >>,
     mwLog  |-> << >>,
     expect |-> [k \in Methods \X Patterns |-> << >>]]

\* router.Add(method, path, h): stores the entry function of the route,
\* replacing an earlier registration of the same method and path.
RouterAdd(router, method, path, entry) ==
    [router EXCEPT ![<<method, path>>] = entry]

\* b.Use(h...)
UseOp(R, h) ==
    LET a == GoAppend(R.heap, R.bolt.handlers, h) IN
    [R EXCEPT !.bolt.handlers = a.slice,
              !.heap          = a.heap,
              !.mwLog         = R.mwLog \o h]

\* Handle with the arguments of append swapped: the route's handlers come
\* before the middleware.
HandleOp_Swapped(R, method, path, h) ==
    LET a == GoAppend(R.heap, NilSlice,
                      h \o SliceElems(R.heap, R.bolt.handlers))
        l == a.slice.len
    IN  [R EXCEPT !.bolt.Router = RouterAdd(@, method, path,
                                            [h |-> a.slice, l |-> l]),
                  !.heap        = a.heap,
                  !.expect[<<method, path>>] = R.mwLog \o h]

\* b.Handle(method, path, h): the entry function captures h and l.
HandleOp(R, method, path, h) ==
    LET a == GoAppend(R.heap, R.bolt.handlers, h)
        l == a.slice.len
    IN  [R EXCEPT !.bolt.Router = RouterAdd(@, method, path,
                                            [h |-> a.slice, l |-> l]),
                  !.heap        = a.heap,
                  !.expect[<<method, path>>] = R.mwLog \o h]

\* A registration run: a sequence of Use and Handle calls applied to R.
RECURSIVE RunProgram(_, _)
RunProgram(R, prog) ==
    IF prog = << >> THEN R
    ELSE LET call == Head(prog) IN
         RunProgram(IF call.op = "Use" THEN UseOp(R, call.h)
                    ELSE HandleOp(R, call.method, call.path, call.h),
                    Tail(prog))

U(h)       == [op |-> "Use", h |-> h]
H(m, p, h) == [op |-> "Handle", method |-> m, path |-> p, h |-> h]

\* Start-up code the server is run with: the not-found handler given to
\* New (the default one, or a custom one through the NotFoundHandler
\* option) and the registration calls.
Programs ==
    { [nf |-> "notFound",
       calls |-> << U(<<"mA">>), H("GET", <<"x">>, <<"mB", "hNext">>),
                    H("GET", <<"users", ":id">>, <<"mSkip", "hEnd">>) >>],
      [nf |-> "customNF",
       calls |-> << U(<<"mTwice">>), H("GET", <<"x">>, <<"hHalt", "hEnd">>),
                    H("GET", <<"users", ":id">>, <<"mSkip", "hEnd">>) >>] }

\* ------------------------------------------------------------ the router
IsParam(seg) == seg = ":id"
ParamName(seg) == IF seg = ":id" THEN "id" ELSE seg

\* A pattern matches a path segment by segment; a parameter segment
\* matches any single segment.
Match(pat, path) ==
    /\ Len(pat) = Len(path)
    /\ \A k \in 1..Len(pat) : pat[k] = path[k] \/ IsParam(pat[k])

Literals(pat) == Cardinality({k \in 1..Len(pat) : ~IsParam(pat[k])})

\* Captures of the descent, left to right.
RECURSIVE Bind(_, _, _)
Bind(pat, path, by) ==
    IF pat = << >> THEN << >>
    ELSE (IF IsParam(Head(pat))
          THEN << [name |-> ParamName(Head(pat)), value |-> Head(path),
                   by |-> by] >>
          ELSE << >>) \o Bind(Tail(pat), Tail(path), by)

\* router.Find(method, path) without the Context: the entry function, the
\* status and the captures.  A literal child is preferred to a parameter.
RouterFind(router, method, path, by) ==
    LET nodes == {p \in Patterns :
                    /\ Match(p, path)
                    /\ \E m \in Methods : router[<<m, p>>] # NoEntry}
    IN  IF nodes = {}
        THEN [h |-> NoEntry, s |-> "NotFound", params |-> << >>]
        ELSE LET p == CHOOSE q \in nodes :
                        \A o \in nodes : Literals(q) >= Literals(o)
             IN  IF router[<<method, p>>] = NoEntry
                 THEN [h |-> NoEntry, s |-> "NotAllowed", params |-> << >>]
                 ELSE [h |-> router[<<method, p>>], s |-> "Matched",
                       params |-> Bind(p, path, by)]

\* ------------------------------------------------------------ the Context
BlankParam == [name |-> "", value |-> "", by |-> 0]

\* b.pool (sync.Pool): Get hands out an idle Context and takes it out of
\* the pool; Put makes a Context idle again.
PoolGet_Peek(idle, c) == idle

PoolGet(idle, c) == idle \ {c}

PoolPut(idle, c) == idle \cup {c}

\* The pool factory: b.pool.New.
NewContext(b) ==
    [params   |-> [k \in 1..b.maxParam |-> BlankParam],
     store    |-> {},
     handlers |-> NilSlice,
     l        |-> 0,
     i        |-> -1]

\* c.reset(rw, r)
ContextReset(c) ==
    [c EXCEPT !.params = << >>, !.store = {}, !.i = -1,
              !.handlers = NilSlice, !.l = 0]

\* Halt that leaves the cursor where it is.
ContextHalt_Noop(c) == c

\* c.Halt()
ContextHalt(c) == [c EXCEPT !.i = c.l]

Event(ph, pos, hid) == [ph |-> ph, pos |-> pos, hid |-> hid]

\* A handler call is a frame: the position of the handler in the chain
\* (-1 for a fallback handler), its name and the next operation of its body.
Frame(pos, hid) == [pos |-> pos, hid |-> hid, ip |-> 1]

\* c.Next(): advance the cursor and call the handler there, if any.  X is
\* the execution of a request: its Context, its call stack, its events.
ContextNext(hp, X) ==
    LET i2 == X.ctx.i + 1 IN
    IF i2 < X.ctx.l
    THEN LET hid == hp[X.ctx.handlers.arr][i2 + 1] IN
         [ctx   |-> [X.ctx EXCEPT !.i = i2],
          stack |-> Append(X.stack, Frame(i2, hid)),
          trace |-> Append(X.trace, Event("pre", i2, hid))]
    ELSE [X EXCEPT !.ctx.i = i2]

\* An entry function that records a length one short of the chain.
RouteEntry_ShortLen(hp, entry, c) ==
    ContextNext(hp, [ctx   |-> [c EXCEPT !.handlers = entry.h,
                                         !.l = entry.l - 1],
                     stack |-> << >>, trace |-> << >>])

\* The entry function Handle gives to the router: c.handlers = h, c.l = l,
\* c.Next().
RouteEntry(hp, entry, c) ==
    ContextNext(hp, [ctx   |-> [c EXCEPT !.handlers = entry.h, !.l = entry.l],
                     stack |-> << >>, trace |-> << >>])

\* A fallback handler is called directly, outside any chain.
CallFallback(hid, c) ==
    [ctx   |-> c,
     stack |-> <<Frame(-1, hid)>>,
     trace |-> <<Event("pre", -1, hid)>>]

StoreSet(st, key, val) == {e \in st : e[1] # key} \cup {<<key, val>>}

Advance(st) == [st EXCEPT ![Len(st)].ip = @ + 1]

\* One operation of the running handler of request id: a call of Next or
\* Halt, a write to the Store, or its return.
HandlerStep(hp, id, X) ==
    LET top == X.stack[Len(X.stack)]
        ops == Script(top.hid)
    IN  IF top.ip > Len(ops)
        THEN [X EXCEPT !.stack = SubSeq(@, 1, Len(@) - 1),
                       !.trace = Append(@, Event("post", top.pos, top.hid))]
        ELSE IF ops[top.ip] = "N"
        THEN ContextNext(hp,
                [X EXCEPT !.stack = Advance(@),
                          !.trace = Append(@, Event("next", top.pos, top.hid))])
        ELSE IF ops[top.ip] = "H"
        THEN [X EXCEPT !.ctx   = ContextHalt(@),
                       !.stack = Advance(@),
                       !.trace = Append(@, Event("halt", top.pos, top.hid))]
        ELSE [X EXCEPT !.ctx.store = StoreSet(@, "user", id),
                       !.stack     = Advance(@)]

\* The handlers run on the worker's own stack until the outermost returns.
RECURSIVE RunHandlers(_, _, _)
RunHandlers(hp, id, X) ==
    IF X.stack = << >> THEN X
    ELSE RunHandlers(hp, id, HandlerStep(hp, id, X))

\* ------------------------------------------------------------------ state
VARIABLES
    bolt,      \* the Bolt value: handlers, Router, fallback handlers, maxParam
    heap,      \* backing arrays of the handler slices
    ctxs,      \* the Contexts built so far by the pool factory
    pool,      \* idle Contexts held by b.pool
    pc,        \* position of each worker inside ServeHTTP
    cur,       \* locals of each ServeHTTP call: request, h, c, s
    nreq,      \* requests received so far
    mwLog,     \* history: every middleware handed to Use, in order
    expect,    \* history: the chain each route was registered with
    last,      \* history: the last registration call
    trace,     \* history: handler events of each worker's current request
    puts       \* history: pool.Put calls made by each worker's last call

vars == <<bolt, heap, ctxs, pool, pc, cur, nreq,
          mwLog, expect, last, trace, puts>>

regVars   == <<bolt, heap, mwLog, expect, last>>
serveVars == <<ctxs, pool, pc, cur, nreq, trace, puts>>

Workers == 1..NumWorkers

Reg == [bolt |-> bolt, heap |-> heap, mwLog |-> mwLog, expect |-> expect]

NoCall == [op |-> "none", n |-> 0]
NoReq  == [id |-> 0, method |-> "", path |-> << >>,
           h |-> NoEntry, c |-> 0, s |-> "",
           reused |-> FALSE, dirty |-> FALSE, moved |-> FALSE,
           done |-> FALSE, saw |-> [params |-> << >>, store |-> {}]]

ServeInit ==
    /\ ctxs  = << >>
    /\ pool  = {}
    /\ pc    = [w \in Workers |-> "idle"]
    /\ cur   = [w \in Workers |-> NoReq]
    /\ trace = [w \in Workers |-> << >>]
    /\ nreq  = 0
    /\ puts  = [w \in Workers |-> 0]

\* After New(): nothing registered yet.
InitReg ==
    /\ bolt   = NewBolt("notFound", "notAllowed")
    /\ heap   = << >>
    /\ mwLog  = << >>
    /\ expect = [k \in Methods \X Patterns |-> << >>]
    /\ last   = NoCall
    /\ ServeInit

\* After New(opts...) and the registration calls of the start-up code.
Init ==
    /\ \E prog \in Programs :
          LET R == RunProgram(NewReg(prog.nf, "notAllowed"), prog.calls) IN
          /\ bolt   = R.bolt
          /\ heap   = R.heap
          /\ mwLog  = R.mwLog
          /\ expect = R.expect
    /\ last = NoCall
    /\ ServeInit

\* ------------------------------------------------------------ registration
Use(h) ==
    /\ Len(mwLog) + Len(h) <= MaxMiddleware
    /\ LET R == UseOp(Reg, h) IN
         /\ bolt'   = R.bolt
         /\ heap'   = R.heap
         /\ mwLog'  = R.mwLog
         /\ expect' = R.expect
    /\ last' = [op |-> "Use", h |-> h, before |-> mwLog, n |-> last.n]
    /\ UNCHANGED serveVars

Handle(method, path, h) ==
    /\ last.n < MaxHandles
    /\ LET R == HandleOp(Reg, method, path, h) IN
         /\ bolt'   = R.bolt
         /\ heap'   = R.heap
         /\ mwLog'  = R.mwLog
         /\ expect' = R.expect
    /\ last' = [op |-> "Handle", method |-> method, path |-> path, h |-> h,
                before |-> mwLog, n |-> last.n + 1]
    /\ UNCHANGED serveVars

\* -------------------------------------------------------------- ServeHTTP
Ctx(w) == ctxs[cur[w].c]

\* h, c, s := b.Router.Find(r.Method, r.URL.Path).  Find takes the Context
\* from b.pool (an idle one, or a new one from the factory) and binds the
\* captures into its Params.
ServeHTTP_Find(w, method, path) ==
    /\ pc[w] = "idle"
    /\ nreq < MaxRequests
    /\ \E c \in pool \cup {Len(ctxs) + 1} :
          /\ c \in pool \/ Len(ctxs) < MaxContexts
          /\ LET id    == nreq + 1
                 res   == RouterFind(bolt.Router, method, path, id)
                 all   == IF c \in pool THEN ctxs
                          ELSE Append(ctxs, NewContext(bolt))
             IN  /\ ctxs' = [all EXCEPT ![c].params = @ \o res.params]
                 /\ pool' = PoolGet(pool, c)
                 /\ cur'  = [cur EXCEPT ![w] =
                                [id |-> id, method |-> method, path |-> path,
                                 h |-> res.h, c |-> c, s |-> res.s,
                                 reused |-> c \in pool,
                                 dirty  |-> all[c].store # {},
                                 moved  |-> all[c].i # -1,
                                 done   |-> FALSE,
                                 saw    |-> NoReq.saw]]
    /\ nreq'  = nreq + 1
    /\ puts'  = [puts EXCEPT ![w] = 0]
    /\ trace' = [trace EXCEPT ![w] = << >>]
    /\ pc'    = [pc EXCEPT ![w] = "found"]
    /\ UNCHANGED regVars

\* ServeHTTP without its call of c.reset.
ResetCall_Skipped(c) == c

\* c.reset(rw, r), as ServeHTTP calls it on the Context Find returned.
ResetCall(c) == ContextReset(c)

\* Dispatch with the two fallback handlers exchanged.
Dispatch_Swapped(b, hp, rq, c) ==
    RunHandlers(hp, rq.id,
        IF rq.h # NoEntry THEN RouteEntry(hp, rq.h, c)
        ELSE IF rq.s = "NotFound"
             THEN CallFallback(b.methodNotAllowedHandler, c)
        ELSE IF rq.s = "NotAllowed"
             THEN CallFallback(b.notFoundHandler, c)
        ELSE [ctx |-> c, stack |-> << >>, trace |-> << >>])

\* if h != nil { h(c) } else if s == NotFound { b.notFoundHandler(c) }
\* else if s == NotAllowed { b.methodNotAllowedHandler(c) }: the call and
\* everything the handlers do until it returns.
Dispatch(b, hp, rq, c) ==
    RunHandlers(hp, rq.id,
        IF rq.h # NoEntry THEN RouteEntry(hp, rq.h, c)
        ELSE IF rq.s = "NotFound"
             THEN CallFallback(b.notFoundHandler, c)
        ELSE IF rq.s = "NotAllowed"
             THEN CallFallback(b.methodNotAllowedHandler, c)
        ELSE [ctx |-> c, stack |-> << >>, trace |-> << >>])

\* c.reset(rw, r), then the call of h or of a fallback handler, until it
\* returns.  saw records the Params and the Store the handlers are given.
ServeHTTP_Run(w) ==
    /\ pc[w] = "found"
    /\ \E c \in {ResetCall(Ctx(w))} :
         \E X \in {Dispatch(bolt, heap, cur[w], c)} :
           /\ ctxs'  = [ctxs EXCEPT ![cur[w].c] = X.ctx]
           /\ trace' = [trace EXCEPT ![w] = X.trace]
           /\ cur'   = [cur EXCEPT ![w].saw =
                            [params |-> c.params, store |-> c.store]]
    /\ pc' = [pc EXCEPT ![w] = "put"]
    /\ UNCHANGED <<pool, nreq, puts, regVars>>

\* ServeHTTP with b.pool.Put(c) inside the branch of a matched route only.
ServeHTTP_PutMatchedOnly(w) ==
    /\ pc[w] = "put"
    /\ pool' = IF cur[w].h # NoEntry THEN PoolPut(pool, cur[w].c) ELSE pool
    /\ puts' = [puts EXCEPT ![w] = IF cur[w].h # NoEntry THEN @ + 1 ELSE @]
    /\ pc'   = [pc EXCEPT ![w] = "idle"]
    /\ cur'  = [cur EXCEPT ![w] = [NoReq EXCEPT !.done = TRUE]]
    /\ trace' = [trace EXCEPT ![w] = << >>]
    /\ UNCHANGED <<ctxs, nreq, regVars>>

\* b.pool.Put(c), and the return of ServeHTTP.
ServeHTTP_Put(w) ==
    /\ pc[w] = "put"
    /\ pool' = PoolPut(pool, cur[w].c)
    /\ puts' = [puts EXCEPT ![w] = @ + 1]
    /\ pc'   = [pc EXCEPT ![w] = "idle"]
    /\ cur'  = [cur EXCEPT ![w] = [NoReq EXCEPT !.done = TRUE]]
    /\ trace' = [trace EXCEPT ![w] = << >>]
    /\ UNCHANGED <<ctxs, nreq, regVars>>

\* ---------------------------------------------------------- specifications
NextReg ==
    \/ \E h \in UseArgs : Use(h)
    \/ \E r \in RegRoutes, h \in HandleArgs : Handle(r[1], r[2], h)

Next ==
    \/ \E w \in Workers, r \in Requests : ServeHTTP_Find(w, r[1], r[2])
    \/ \E w \in Workers : ServeHTTP_Run(w)
    \/ \E w \in Workers : ServeHTTP_Put(w)

SpecReg == InitReg /\ [][NextReg]_vars
Spec    == Init /\ [][Next]_vars

\* ------------------------------------------------------------- properties
RouteKeys == Methods \X Patterns

\* The chain bound to a registered route, read through the heap.
ChainOf(k) == SliceElems(heap, bolt.Router[k].h)

\* The chain of the request worker w is serving.
ChainAt(w) == SliceElems(heap, cur[w].h.h)

\* The handlers of w's request are about to run, or have all returned.
Called(w)  == pc[w] = "put"
InRoute(w) == Called(w) /\ cur[w].h # NoEntry
InFlight(w) == pc[w] # "idle"

CallsNext(h) == Cardinality({k \in 1..Len(Script(h)) : Script(h)[k] = "N"})
CallsHalt(h) == \E k \in 1..Len(Script(h)) : Script(h)[k] = "H"

\* C1: right after Handle(method, path, h), the chain bound to the route
\* is the middleware handed to Use so far, in registration order, followed
\* by h in the order given, and the recorded length l is the number of
\* middleware plus the number of handlers in h.
C1_HandleBindsChain ==
    last.op = "Handle" =>
        LET k == <<last.method, last.path>> IN
        /\ bolt.Router[k] # NoEntry
        /\ ChainOf(k) = last.before \o last.h
        /\ bolt.Router[k].l = Len(last.before) + Len(last.h)

\* A Handle call with two handlers after two different middleware.
C1_Witness ==
    /\ last.op = "Handle"
    /\ Len(last.before) >= 2
    /\ last.before[1] # last.before[2]
    /\ Len(last.h) = 2
    /\ ChainOf(<<last.method, last.path>>) = last.before \o last.h

\* C10: after any sequence of Use and Handle calls, the chain of every
\* registered route is still the middleware registered before that route
\* followed by the route's own handlers, with the matching length: later
\* Use and Handle calls change no chain bound earlier.
C10_ChainsStable ==
    \A k \in RouteKeys :
        bolt.Router[k] # NoEntry =>
            /\ ChainOf(k) = expect[k]
            /\ bolt.Router[k].l = Len(expect[k])

\* Every handler that starts at a position after the first is started by
\* the Next() of the handler one position before it, and returns before
\* that handler does.
Nested(tr) ==
    /\ \A j \in 1..Len(tr) :
          (tr[j].ph = "pre" /\ tr[j].pos >= 1) =>
              /\ j > 1
              /\ tr[j - 1].ph = "next"
              /\ tr[j - 1].pos = tr[j].pos - 1
    /\ \A a, b \in 1..Len(tr) :
          (tr[a].ph = "post" /\ tr[b].ph = "post" /\ tr[a].pos > tr[b].pos)
              => a < b

\* Position (from 1) of the first handler of the chain that does not call
\* Next(), or the last position.
StopAt(chain) ==
    LET ends == {k \in 1..Len(chain) : CallsNext(chain[k]) = 0}
                    \cup {Len(chain)}
    IN  CHOOSE k \in ends : \A o \in ends : k <= o

\* pre of positions 0..n-1, then post of positions n-1..0.
Onion(chain, n) ==
    [j \in 1..(2 * n) |->
        IF j <= n THEN Event("pre", j - 1, chain[j])
        ELSE Event("post", 2 * n - j, chain[2 * n - j + 1])]

OnceEach(chain) == \A k \in 1..Len(chain) : CallsNext(chain[k]) <= 1
NoHalt(chain)   == \A k \in 1..Len(chain) : ~CallsHalt(chain[k])

\* The pre and post events of a trace, in order.
PrePost(tr) == SelectSeq(tr, LAMBDA e : e.ph \in {"pre", "post"})

\* The events of a finished chain are the onion up to the first handler
\* that does not call Next().
OnionOrder(w) ==
    (NoHalt(ChainAt(w)) /\ ChainAt(w) # << >>) =>
        PrePost(trace[w]) = Onion(ChainAt(w), StopAt(ChainAt(w)))

C3_NoHandlerAfterHalt ==
    \A w \in Workers :
        \A i, j \in 1..Len(trace[w]) :
            (i < j /\ trace[w][i].ph = "halt") =>
                ~(trace[w][j].ph = "pre" /\ trace[w][j].pos > trace[w][i].pos)

\* The second handler of three has halted and the first one, still
\* running, has called Next() again afterwards.
C3_Witness ==
    \E w \in Workers :
        /\ InRoute(w) /\ Len(ChainAt(w)) = 3
        /\ \E i, j \in 1..Len(trace[w]) :
              /\ i < j
              /\ trace[w][i].ph = "halt" /\ trace[w][i].pos = 1
              /\ trace[w][j].ph = "next" /\ trace[w][j].pos = 0

\* Every event of worker w's request comes from handler hid, called
\* outside any chain.
FallbackRan(w, hid) ==
    /\ trace[w] # << >>
    /\ trace[w][1] = Event("pre", -1, hid)
    /\ \A i \in 1..Len(trace[w]) :
          trace[w][i].hid = hid /\ trace[w][i].pos = -1

\* C4: for every request exactly one of three things runs: the chain of
\* the matched route when resolution is Matched, the configured not-found
\* handler when it is NotFound, the configured method-not-allowed handler
\* when it is NotAllowed; in the last two cases no route handler and no
\* middleware runs.
C4_OneOfThree ==
    \A w \in Workers :
        Called(w) =>
            /\ cur[w].s \in {"Matched", "NotFound", "NotAllowed"}
            /\ cur[w].s = "Matched" =>
                  /\ cur[w].h = bolt.Router[<<cur[w].method,
                          CHOOSE p \in Patterns : Match(p, cur[w].path)>>]
                  /\ \A i \in 1..Len(trace[w]) :
                        /\ trace[w][i].pos \in 0..(Len(ChainAt(w)) - 1)
                        /\ trace[w][i].hid = ChainAt(w)[trace[w][i].pos + 1]
                  /\ ChainAt(w) # << >> => trace[w] # << >>
            /\ cur[w].s = "NotFound" =>
                  FallbackRan(w, bolt.notFoundHandler)
            /\ cur[w].s = "NotAllowed" =>
                  FallbackRan(w, bolt.methodNotAllowedHandler)

\* A custom not-found handler that calls Next() has returned, on a
\* Context an earlier request ran a route chain on, while another worker
\* has had the method-not-allowed handler run.
C4_Witness ==
    \E w, v \in Workers :
        /\ Called(w) /\ cur[w].s = "NotFound" /\ cur[w].moved
        /\ CallsNext(bolt.notFoundHandler) = 1
        /\ Len(trace[w]) = 3
        /\ Called(v) /\ cur[v].s = "NotAllowed" /\ Len(trace[v]) = 3

\* C5: the Params and the Store the handlers of a request see hold no
\* entry written during an earlier request that used the same Context.
C5_NoStaleData ==
    \A w \in Workers :
        Called(w) =>
            /\ \A e \in cur[w].saw.store \cup Ctx(w).store : e[2] = cur[w].id
            /\ \A k \in 1..Len(cur[w].saw.params) :
                  cur[w].saw.params[k].by \in {0, cur[w].id}

\* The handlers of a request have written the Store of a reused Context
\* whose Store held an entry of an earlier request when it was taken from
\* the pool.
C5_Witness ==
    \E w \in Workers :
        /\ Called(w) /\ cur[w].reused /\ cur[w].dirty
        /\ Ctx(w).store = {<<"user", cur[w].id>>}

\* C6: with ServeHTTP calls running concurrently, a Context is held by at
\* most one in-flight request at a time, and no in-flight Context is idle
\* in the pool.
C6_ExclusiveContext ==
    \A w \in Workers :
        InFlight(w) =>
            /\ cur[w].c \notin pool
            /\ \A v \in Workers \ {w} : InFlight(v) => cur[v].c # cur[w].c

\* The handlers of two requests have run and neither Context is released
\* yet, one of them a reused Context, while the pool has no idle Context.
C6_Witness ==
    \E w, v \in Workers :
        /\ w # v
        /\ Called(w) /\ cur[w].reused
        /\ Called(v)
        /\ pool = {}

\* pre and post events of a trace pair up.
Balanced(tr) ==
    Cardinality({i \in 1..Len(tr) : tr[i].ph = "pre"})
        = Cardinality({i \in 1..Len(tr) : tr[i].ph = "post"})

C7_State ==
    \A w \in Workers :
        /\ InFlight(w) => puts[w] = 0
        /\ (~InFlight(w) /\ cur[w].done) => puts[w] = 1

C7_Step ==
    \A w \in Workers :
        (InFlight(w) /\ ~InFlight(w)') =>
            /\ Called(w)
            /\ Balanced(trace[w])
            /\ cur[w].h = NoEntry => trace[w] # << >>
            /\ cur[w].c \notin pool /\ cur[w].c \in pool'

\* C7: every ServeHTTP call whose handlers return puts its Context into
\* the pool exactly once, and only after the route chain or the fallback
\* handler has finished completely, post phases included, on the Matched,
\* NotFound and NotAllowed paths alike.
C7_ReleaseOnce == [](C7_State) /\ [][C7_Step]_vars

\* A call on the NotFound path has returned and its Context is idle,
\* while a call on the NotAllowed path is about to release its own.
C7_Witness ==
    \E w, v \in Workers :
        /\ ~InFlight(w) /\ cur[w].done /\ puts[w] = 1
        /\ pool # {}
        /\ Called(v) /\ cur[v].s = "NotAllowed"

Pairs(params) == [k \in 1..Len(params) |-> <<params[k].name, params[k].value>>]

\* C8: the handlers of the matched chain run with the Params resolution
\* bound for the request: for the route GET /users/:id and the request
\* GET /users/42 they see Params = [("id", "42")].
C8_ParamsVisible ==
    \A w \in Workers :
        (Called(w) /\ cur[w].s = "Matched" /\ cur[w].path = <<"users", "42">>)
            => Pairs(cur[w].saw.params) = << <<"id", "42">> >>

\* C9: the chain of every request starts at its first handler, on a fresh
\* Context and on a reused one alike: the first handler run is
\* handlers[0].
C9_StartsAtFirst ==
    \A w \in Workers :
        (InRoute(w) /\ ChainAt(w) # << >>) =>
            /\ trace[w] # << >>
            /\ trace[w][1] = Event("pre", 0, ChainAt(w)[1])

\* A chain has run on a reused Context whose cursor an earlier request
\* had advanced, and on a fresh one.
C9_Witness ==
    \E w, v \in Workers :
        /\ InRoute(w) /\ cur[w].reused /\ cur[w].moved /\ trace[w] # << >>
        /\ InRoute(v) /\ ~cur[v].reused /\ trace[v] # << >>

====
